---- MODULE Spec2Model ----
(***************************************************************************)
(* A model of rails_api_postman_sync.py: the path normalizer, the          *)
(* collection item codec, the content merge engine, the change detector    *)
(* and the reconciler (smart_update_postman_collection).                   *)
(*                                                                         *)
(* Strings are sequences of tokens.  A token is a piece of text that the   *)
(* code only ever treats as a whole (a sentinel marker, a format suffix,   *)
(* a path separator, a word); the alphabets below are uniquely decodable,  *)
(* so two token sequences are equal exactly when the strings are.          *)
(***************************************************************************)
EXTENDS Integers, Sequences, FiniteSets, TLC

VARIABLES
    norm,      \* the path normalizer / key codec harness (SpecPath)
    mrg,       \* the merge engine harness (SpecMerge)
    remote,    \* the remote collection: [items, description]
    fetched,   \* the items the last run fetched (its snapshot)
    api,       \* the api_data of the last run: [shape, endpoints]
    opts,      \* the flags of the last run: [doc, preserve]
    report,    \* the change report of the last run: [new, updated, unchanged]
    lookup,    \* the last run's key -> item mapping after the loop
    outcome,   \* how the last run ended: [result, fetches, writes]
    runs,      \* number of tool calls so far
    rerun,     \* the last run repeated the batch and flags of the run before
    call,      \* the tool last called and its credentials: [tool, uid, key]
    docs,      \* the documentation generator harness (SpecDocs)
    cmp,       \* the item codec / change detector harness (SpecCodec)
    race       \* two interleaved runs against one collection (SpecRace)

vars == <<norm, mrg, remote, fetched, api, opts, report, lookup, outcome, runs, rerun, call,
          docs, cmp, race>>

(***************************************************************************)
(* Bounds of the model.                                                    *)
(***************************************************************************)
MaxPathLen == 4
MaxTextLen == 3
MaxRuns == 2
MaxBatch == 2
MaxExisting == 2
MaxParams == 2

(***************************************************************************)
(* Generic helpers on sequences.                                           *)
(***************************************************************************)
Range(s) == {s[i] : i \in 1..Len(s)}

Contains(s, t) == \E i \in 1..Len(s) : s[i] = t

\* index of the first occurrence of t in s, or Len(s)+1
FirstIndex(s, t) ==
    IF Contains(s, t) THEN CHOOSE i \in 1..Len(s) : s[i] = t /\ \A j \in 1..(i-1) : s[j] # t
    ELSE Len(s) + 1

\* s[:i-1] and s[i+1:] around position i
Before(s, i) == SubSeq(s, 1, i - 1)

After(s, i) == SubSeq(s, i + 1, Len(s))

SeqsUpTo(S, n) == UNION {[1..k -> S] : k \in 0..n}

(***************************************************************************)
(* Path Normalizer.                                                        *)
(***************************************************************************)
\* the six suffixes of remove_format_extension
FormatExtensions == {".json", ".xml", ".html", ".csv", ".pdf", ".txt"}

\* the tokens path strings are built from
PathAlphabet == {"/", "a", "b", ".json", ".xml", "?", "http:"}

PathStrings == SeqsUpTo(PathAlphabet, MaxPathLen)

\* for ext in format_extensions: if path.endswith(ext): return path[:-len(ext)]
remove_format_extension(path) ==
    IF Len(path) > 0 /\ path[Len(path)] \in FormatExtensions
    THEN SubSeq(path, 1, Len(path) - 1)
    ELSE path

\* url_string.startswith('http')
StartsWithHttp(s) == Len(s) > 0 /\ s[1] = "http:"

\* url_string.split('?')[0]
BeforeQuery(s) == Before(s, FirstIndex(s, "?"))

\* urlparse(url_string).path for a string that starts with the scheme:
\* a "//" after the scheme opens the authority, which runs to the next "/"
\* or "?"; the path is what follows, up to the first "?".
UrlParsePath(s) ==
    LET rest == Tail(s)
        hasNetloc == Len(rest) >= 2 /\ rest[1] = "/" /\ rest[2] = "/"
        afterSlashes == SubSeq(rest, 3, Len(rest))
        stop == CHOOSE i \in 1..(Len(afterSlashes) + 1) :
                    /\ (i = Len(afterSlashes) + 1 \/ afterSlashes[i] \in {"/", "?"})
                    /\ \A j \in 1..(i-1) : afterSlashes[j] \notin {"/", "?"}
        url == IF hasNetloc THEN SubSeq(afterSlashes, stop, Len(afterSlashes)) ELSE rest
    IN  BeforeQuery(url)

extract_clean_path_from_string(url_string) ==
    LET clean_path == IF StartsWithHttp(url_string) THEN UrlParsePath(url_string)
                      ELSE IF Contains(url_string, "?") THEN BeforeQuery(url_string)
                      ELSE url_string
    IN  remove_format_extension(clean_path)

RECURSIVE SplitOn(_, _)
\* s.split(sep): the pieces between the occurrences of sep (possibly empty)
SplitOn(s, sep) ==
    IF ~Contains(s, sep) THEN <<s>>
    ELSE LET i == FirstIndex(s, sep)
         IN  <<Before(s, i)>> \o SplitOn(After(s, i), sep)

\* [p for p in clean_path.split("/") if p]
PathSegments(clean_path) == SelectSeq(SplitOn(clean_path, "/"), LAMBDA p : p # <<>>)

RECURSIVE JoinSegments(_)
\* "/".join(path)
JoinSegments(segs) ==
    IF segs = <<>> THEN <<>>
    ELSE IF Len(segs) = 1 THEN segs[1]
    ELSE segs[1] \o <<"/">> \o JoinSegments(Tail(segs))

\* a url object: hasPath says whether it carries the "path" segment list
extract_clean_path_from_postman_url(url) ==
    IF url.hasPath THEN remove_format_extension(<<"/">> \o JoinSegments(url.path))
    ELSE extract_clean_path_from_string(url.raw)

\* the url object convert_endpoint_to_postman_item builds (query added by the caller)
EncodeUrl(clean_path, query) ==
    [raw |-> clean_path, hasPath |-> TRUE, path |-> PathSegments(clean_path), query |-> query]

(***************************************************************************)
(* Texts (descriptions).  Tokens: the sentinel markers, "NL" (a newline),  *)
(* "---" (the rule), the legacy fingerprints, and words.                   *)
(***************************************************************************)
\* "<!-- AUTO-GENERATED-REQUEST START -->" and "... END -->"
RS == "<!-- AUTO-GENERATED-REQUEST START -->"

RE == "<!-- AUTO-GENERATED-REQUEST END -->"

\* "<!-- AUTO-GENERATED START -->" and "... END -->"
CS == "<!-- AUTO-GENERATED START -->"

CE == "<!-- AUTO-GENERATED END -->"

\* whitespace: a newline and a space
NL == "NL"

SP == " "

\* "\n\n" and "\n\n---\n\n"
BlankLine == <<NL, NL>>

RuleSeparator == <<NL, NL, "---", NL, NL>>

RECURSIVE LStrip(_)
LStrip(t) == IF t # <<>> /\ t[1] \in {NL, SP} THEN LStrip(Tail(t)) ELSE t

RECURSIVE RStrip(_)
RStrip(t) == IF t # <<>> /\ t[Len(t)] \in {NL, SP} THEN RStrip(SubSeq(t, 1, Len(t) - 1)) ELSE t

\* str.strip()
Strip(t) == RStrip(LStrip(t))

\* existing.split(marker)[0] and existing.split(marker, 1)[1]
SplitHead(t, marker) == Before(t, FirstIndex(t, marker))

SplitRest(t, marker) == After(t, FirstIndex(t, marker))

\* "# {method}" of the title line generate_request_documentation writes
TitleToken(method) ==
    CASE method = "GET" -> "# GET"
      [] method = "POST" -> "# POST"
      [] method = "PUT" -> "# PUT"
      [] method = "DELETE" -> "# DELETE"
      [] OTHER -> "# PATCH"

\* the legacy fingerprints of merge_request_descriptions
RequestLegacy(existing) ==
    \/ (Len(existing) >= 2 /\ existing[1] \in {"# GET", "# POST", "# PUT", "# DELETE"}
            /\ existing[2] = SP)
    \/ Contains(existing, "## Query Parameters")
    \/ Contains(existing, "## Request Body")
    \/ Contains(existing, "## Responses")
    \/ Contains(existing, "**Controller:**")

\* the legacy fingerprints of merge_descriptions
CollectionLegacy(existing) ==
    \/ existing # <<>> /\ existing[1] = "# API Collection Documentation"
    \/ Contains(existing, "This collection contains")
    \/ Contains(existing, "Auto-generated on")

(***************************************************************************)
(* Content Merge Engine.                                                   *)
(***************************************************************************)
\* a variant that drops the unmarked existing text as the legacy branch does
merge_request_descriptions_drop(existing, new) ==
    IF existing = <<>> THEN new
    ELSE IF new = <<>> THEN existing
    ELSE IF existing = new THEN existing
    ELSE IF Contains(existing, RS) /\ Contains(existing, RE)
    THEN LET manual_before == Strip(SplitHead(existing, RS))
             manual_after == Strip(SplitRest(existing, RE))
         IN  (IF manual_before # <<>> THEN manual_before \o BlankLine ELSE <<>>)
             \o new
             \o (IF manual_after # <<>> THEN BlankLine \o manual_after ELSE <<>>)
    ELSE new

merge_request_descriptions(existing, new) ==
    IF existing = <<>> THEN new
    ELSE IF new = <<>> THEN existing
    ELSE IF existing = new THEN existing
    ELSE IF Contains(existing, RS) /\ Contains(existing, RE)
    THEN LET manual_before == Strip(SplitHead(existing, RS))
             manual_after == Strip(SplitRest(existing, RE))
         IN  (IF manual_before # <<>> THEN manual_before \o BlankLine ELSE <<>>)
             \o new
             \o (IF manual_after # <<>> THEN BlankLine \o manual_after ELSE <<>>)
    ELSE IF RequestLegacy(existing) THEN new
    ELSE existing \o RuleSeparator \o new

\* a variant that tests the legacy fingerprints ahead of the marker pair
merge_descriptions_legacy_first(existing, new) ==
    IF existing = <<>> THEN new
    ELSE IF new = <<>> THEN existing
    ELSE IF existing = new THEN existing
    ELSE IF CollectionLegacy(existing) THEN new
    ELSE IF Contains(existing, CS) /\ Contains(existing, CE)
    THEN LET manual_before == Strip(SplitHead(existing, CS))
             manual_after == Strip(SplitRest(existing, CE))
         IN  (IF manual_before # <<>> THEN manual_before \o BlankLine ELSE <<>>)
             \o new
             \o (IF manual_after # <<>> THEN BlankLine \o manual_after ELSE <<>>)
    ELSE existing \o RuleSeparator \o new

merge_descriptions(existing, new) ==
    IF existing = <<>> THEN new
    ELSE IF new = <<>> THEN existing
    ELSE IF existing = new THEN existing
    ELSE IF Contains(existing, CS) /\ Contains(existing, CE)
    THEN LET manual_before == Strip(SplitHead(existing, CS))
             manual_after == Strip(SplitRest(existing, CE))
         IN  (IF manual_before # <<>> THEN manual_before \o BlankLine ELSE <<>>)
             \o new
             \o (IF manual_after # <<>> THEN BlankLine \o manual_after ELSE <<>>)
    ELSE IF CollectionLegacy(existing) THEN new
    ELSE existing \o RuleSeparator \o new

(***************************************************************************)
(* Collection Item Codec.                                                  *)
(* A descriptor is [method, path, description, controller, action,         *)
(* parameters, responses]; a parameter is [name, type, required, location, *)
(* description, default] ("" for no default); an item is [hasRequest,      *)
(* name, method, header, url, body, description], body = [mode, entries]   *)
(* with mode "none" for an item without body.                              *)
(***************************************************************************)
\* [p for p in parameters if p.get("location") == loc]
ParamsAt(parameters, loc) == SelectSeq(parameters, LAMBDA p : p.location = loc)

RequiredToken(p) == IF p.required THEN "Required" ELSE "Optional"

OptionalToken(str) == IF str = "" THEN <<>> ELSE <<str>>

RECURSIVE TypedParamLines(_)
\* "- **{name}** ({param_type}, {required}): {param_desc}\n" for each parameter
TypedParamLines(ps) ==
    IF ps = <<>> THEN <<>>
    ELSE <<"- **", ps[1].name, ps[1].type, RequiredToken(ps[1])>>
         \o OptionalToken(ps[1].description) \o <<NL>> \o TypedParamLines(Tail(ps))

RECURSIVE PathParamLines(_)
\* "- **{name}** ({param_type}): {param_desc}\n"
PathParamLines(ps) ==
    IF ps = <<>> THEN <<>>
    ELSE <<"- **", ps[1].name, ps[1].type>>
         \o OptionalToken(ps[1].description) \o <<NL>> \o PathParamLines(Tail(ps))

RECURSIVE HeaderParamLines(_)
\* "- **{name}**: {param_desc}\n"
HeaderParamLines(ps) ==
    IF ps = <<>> THEN <<>>
    ELSE <<"- **", ps[1].name>>
         \o OptionalToken(ps[1].description) \o <<NL>> \o HeaderParamLines(Tail(ps))

RECURSIVE ResponseLines(_)
\* "### {status} - {resp_desc}\n\n" and the example block when there is one
ResponseLines(rs) ==
    IF rs = <<>> THEN <<>>
    ELSE <<"###", SP, rs[1].status>> \o OptionalToken(rs[1].description) \o BlankLine
         \o (IF rs[1].example # "" THEN <<"~~~json", NL, rs[1].example, NL, "~~~">> \o BlankLine
             ELSE <<>>)
         \o ResponseLines(Tail(rs))

\* the Content-Type generate_request_documentation prints
DocContentType(body_params) ==
    IF body_params # <<>> THEN "application/json" ELSE "application/x-www-form-urlencoded"

generate_request_documentation(endpoint) ==
    LET path == extract_clean_path_from_string(endpoint.path)
        parameters == endpoint.parameters
        query_params == ParamsAt(parameters, "query")
        path_params == ParamsAt(parameters, "path")
        header_params == ParamsAt(parameters, "header")
        body_params == ParamsAt(parameters, "body")
        form_params == ParamsAt(parameters, "form")
        target_params == IF body_params # <<>> THEN body_params ELSE form_params
    IN  <<RS, NL, TitleToken(endpoint.method), SP>> \o path \o BlankLine
        \o (IF endpoint.description # <<>> THEN endpoint.description \o BlankLine ELSE <<>>)
        \o (IF endpoint.controller # "" /\ endpoint.action # ""
            THEN <<"**Controller:**", endpoint.controller, "#", endpoint.action>> \o BlankLine
            ELSE <<>>)
        \o (IF query_params # <<>>
            THEN <<"## Query Parameters">> \o BlankLine \o TypedParamLines(query_params) \o <<NL>>
            ELSE <<>>)
        \o (IF path_params # <<>>
            THEN <<"## Path Parameters">> \o BlankLine \o PathParamLines(path_params) \o <<NL>>
            ELSE <<>>)
        \o (IF header_params # <<>>
            THEN <<"## Headers">> \o BlankLine \o HeaderParamLines(header_params) \o <<NL>>
            ELSE <<>>)
        \o (IF body_params # <<>> \/ form_params # <<>>
            THEN <<"## Request Body">> \o BlankLine
                 \o <<"**Content-Type:**", DocContentType(body_params)>> \o BlankLine
                 \o TypedParamLines(target_params) \o <<NL>>
            ELSE <<>>)
        \o (IF endpoint.responses # <<>>
            THEN <<"## Responses">> \o BlankLine \o ResponseLines(endpoint.responses)
            ELSE <<>>)
        \o <<RE>>

RECURSIVE HeaderEntries(_)
\* {"key": name, "value": "", "description": ...} for each header parameter
HeaderEntries(ps) ==
    IF ps = <<>> THEN <<>>
    ELSE <<[key |-> ps[1].name, value |-> "", description |-> ps[1].description]>>
         \o HeaderEntries(Tail(ps))

RECURSIVE ValueEntries(_)
\* {"key": name, "value": default or "", "disabled": False, "description": ...}
ValueEntries(ps) ==
    IF ps = <<>> THEN <<>>
    ELSE <<[key |-> ps[1].name, value |-> ps[1].default, disabled |-> FALSE,
            description |-> ps[1].description]>>
         \o ValueEntries(Tail(ps))

\* param.get("default", <the default of the declared type>), as JSON text
JsonDefault(p) ==
    IF p.default # "" THEN p.default
    ELSE CASE p.type = "integer" -> "0"
           [] p.type = "boolean" -> "false"
           [] p.type = "array" -> "[]"
           [] p.type = "object" -> "{}"
           [] OTHER -> ""

RECURSIVE JsonObject(_, _)
\* body_object[param_name] = ...: a later parameter of the same name overwrites
\* the value and keeps the place of the first
JsonObject(ps, acc) ==
    IF ps = <<>> THEN acc
    ELSE LET e == [key |-> ps[1].name, value |-> JsonDefault(ps[1])]
             at == {i \in 1..Len(acc) : acc[i].key = e.key}
         IN  JsonObject(Tail(ps),
                 IF at = {} THEN Append(acc, e)
                 ELSE [i \in 1..Len(acc) |-> IF i \in at THEN e ELSE acc[i]])

\* a variant in which the body parameters decide the Content-Type first
ContentTypeHeaderBodyFirst(body_params, form_params) ==
    IF body_params # <<>> \/ form_params # <<>>
    THEN IF body_params # <<>>
         THEN <<[key |-> "Content-Type", value |-> "application/json", description |-> ""]>>
         ELSE <<[key |-> "Content-Type", value |-> "application/x-www-form-urlencoded",
                 description |-> ""]>>
    ELSE <<>>

\* the Content-Type header the codec synthesizes
ContentTypeHeader(body_params, form_params) ==
    IF body_params # <<>> \/ form_params # <<>>
    THEN IF form_params # <<>>
         THEN <<[key |-> "Content-Type", value |-> "application/x-www-form-urlencoded",
                 description |-> ""]>>
         ELSE <<[key |-> "Content-Type", value |-> "application/json", description |-> ""]>>
    ELSE <<>>

EncodeBody(body_params, form_params) ==
    IF body_params # <<>> \/ form_params # <<>>
    THEN IF form_params # <<>>
         THEN [mode |-> "urlencoded", entries |-> ValueEntries(form_params)]
         ELSE [mode |-> "raw", entries |-> JsonObject(body_params, <<>>)]
    ELSE [mode |-> "none", entries |-> <<>>]

convert_endpoint_to_postman_item(endpoint, include_documentation) ==
    LET clean_path == extract_clean_path_from_string(endpoint.path)
        parameters == endpoint.parameters
    IN  [hasRequest |-> TRUE,
         name |-> <<endpoint.method>> \o clean_path,
         method |-> endpoint.method,
         header |-> HeaderEntries(ParamsAt(parameters, "header"))
                    \o ContentTypeHeader(ParamsAt(parameters, "body"), ParamsAt(parameters, "form")),
         url |-> EncodeUrl(clean_path, ValueEntries(ParamsAt(parameters, "query"))),
         body |-> EncodeBody(ParamsAt(parameters, "body"), ParamsAt(parameters, "form")),
         description |-> IF include_documentation THEN generate_request_documentation(endpoint)
                         ELSE endpoint.description]

\* key = f"{method}:{clean_path}" of a descriptor and of an item
EndpointKey(endpoint) == <<endpoint.method, extract_clean_path_from_string(endpoint.path)>>

ItemKey(item) == <<item.method, extract_clean_path_from_postman_url(item.url)>>

(***************************************************************************)
(* Change Detector.                                                        *)
(***************************************************************************)
KeySet(entries) == {entries[i].key : i \in 1..Len(entries)}

headers_different(existing, new) ==
    Len(existing) # Len(new) \/ KeySet(existing) # KeySet(new)

\* a variant that compares the sets of query keys only
url_different_keys_only(existing, new) == KeySet(existing.query) # KeySet(new.query)

url_different(existing, new) ==
    Len(existing.query) # Len(new.query) \/ KeySet(existing.query) # KeySet(new.query)

body_different(existing, new) ==
    IF existing.mode = "none" /\ new.mode = "none" THEN FALSE
    ELSE IF existing.mode = "none" \/ new.mode = "none" THEN TRUE
    ELSE existing.mode # new.mode

\* a variant in which a differing axis ends the comparison
compare_postman_items_first_axis(existing, new) ==
    LET headers == headers_different(existing.header, new.header)
        url == ~headers /\ url_different(existing.url, new.url)
        body == ~headers /\ ~url /\ body_different(existing.body, new.body)
        description == ~headers /\ ~url /\ ~body /\ existing.description # new.description
    IN  [has_changes |-> headers \/ url \/ body \/ description,
         request_changes |-> (IF headers THEN {"headers"} ELSE {})
                             \cup (IF url THEN {"url"} ELSE {})
                             \cup (IF body THEN {"body"} ELSE {}),
         documentation_changes |-> IF description THEN {"description"} ELSE {}]

compare_postman_items(existing, new) ==
    LET headers == headers_different(existing.header, new.header)
        url == url_different(existing.url, new.url)
        body == body_different(existing.body, new.body)
        description == existing.description # new.description
    IN  [has_changes |-> headers \/ url \/ body \/ description,
         request_changes |-> (IF headers THEN {"headers"} ELSE {})
                             \cup (IF url THEN {"url"} ELSE {})
                             \cup (IF body THEN {"body"} ELSE {}),
         documentation_changes |-> IF description THEN {"description"} ELSE {}]

items_are_different(existing, new) == compare_postman_items(existing, new).has_changes

\* merged = new.copy() with the request description merged
merge_postman_items_with_preservation(existing, new) ==
    IF existing.description # <<>> \/ new.description # <<>>
    THEN [new EXCEPT !.description = merge_request_descriptions(existing.description, new.description)]
    ELSE new

(***************************************************************************)
(* Collection description.                                                 *)
(***************************************************************************)
\* len(endpoints) as text
CountToken(n) == IF n = 1 THEN "1" ELSE IF n = 2 THEN "2" ELSE IF n = 3 THEN "3" ELSE "many"

\* desc.split('.')[0] + '.' if '.' in desc else desc
FirstSentence(desc) == IF Contains(desc, ".") THEN SplitHead(desc, ".") \o <<".">> ELSE desc

RECURSIVE EndpointLines(_)
\* "- **{method} {path}**" [" - {first_sentence}"] "\n" for each endpoint
EndpointLines(endpoints) ==
    IF endpoints = <<>> THEN <<>>
    ELSE <<"- **", endpoints[1].method>> \o extract_clean_path_from_string(endpoints[1].path)
         \o (IF endpoints[1].description # <<>>
             THEN <<SP, "-", SP>> \o FirstSentence(endpoints[1].description) ELSE <<>>)
         \o <<NL>> \o EndpointLines(Tail(endpoints))

\* timestamp is datetime.now() formatted to the second
generate_collection_description(endpoints, timestamp) ==
    IF endpoints = <<>> THEN <<"API Documentation - No endpoints available">>
    ELSE <<CS, NL, "# API Collection Documentation">> \o BlankLine
         \o <<"This collection contains", CountToken(Len(endpoints))>> \o BlankLine
         \o EndpointLines(endpoints)
         \o <<NL, "Auto-generated on", timestamp, NL, CE>>

\* lines 200-207: the collection description a run writes
CollectionDescription(existing_desc, endpoints, timestamp, include_documentation, preserve_existing_docs) ==
    IF include_documentation
    THEN LET collection_description == generate_collection_description(endpoints, timestamp)
         IN  IF preserve_existing_docs /\ existing_desc # <<>>
             THEN merge_descriptions(existing_desc, collection_description)
             ELSE collection_description
    ELSE existing_desc

(***************************************************************************)
(* Reconciler.  The key -> item mapping is a dict: a sequence of           *)
(* [key, item] in insertion order; assigning to a key that is present      *)
(* replaces the item and keeps the place.                                  *)
(***************************************************************************)
HasKey(lk, key) == \E i \in 1..Len(lk) : lk[i].key = key

Lookup(lk, key) == lk[CHOOSE i \in 1..Len(lk) : lk[i].key = key].item

\* existing_lookup[key] = item
Put(lk, key, item) ==
    IF HasKey(lk, key)
    THEN [i \in 1..Len(lk) |-> IF lk[i].key = key THEN [key |-> key, item |-> item] ELSE lk[i]]
    ELSE Append(lk, [key |-> key, item |-> item])

\* list(existing_lookup.values())
Values(lk) == [i \in 1..Len(lk) |-> lk[i].item]

RECURSIVE BuildLookup(_, _)
\* lines 210-217: items without "request" are skipped
BuildLookup(items, lk) ==
    IF items = <<>> THEN lk
    ELSE BuildLookup(Tail(items),
             IF items[1].hasRequest THEN Put(lk, ItemKey(items[1]), items[1]) ELSE lk)

\* the candidate item: merged with the existing one when preservation is on
Candidate(existing_item, new_item, preserve_existing_docs) ==
    IF preserve_existing_docs
    THEN merge_postman_items_with_preservation(existing_item, new_item)
    ELSE new_item

\* a variant that stores the candidate item also when the change detector
\* finds no change
ClassifyAlwaysStore(acc, key, existing_item, merged_item) ==
    IF items_are_different(existing_item, merged_item)
    THEN [acc EXCEPT !.lookup = Put(acc.lookup, key, merged_item),
                     !.updated = Append(acc.updated, key)]
    ELSE [acc EXCEPT !.lookup = Put(acc.lookup, key, merged_item),
                     !.unchanged = Append(acc.unchanged, key)]

\* a variant that does not report unchanged endpoints
ClassifySilent(acc, key, existing_item, merged_item) ==
    IF items_are_different(existing_item, merged_item)
    THEN [acc EXCEPT !.lookup = Put(acc.lookup, key, merged_item),
                     !.updated = Append(acc.updated, key)]
    ELSE acc

\* lines 242-247: store and report the candidate of an existing key
Classify(acc, key, existing_item, merged_item) ==
    IF items_are_different(existing_item, merged_item)
    THEN [acc EXCEPT !.lookup = Put(acc.lookup, key, merged_item),
                     !.updated = Append(acc.updated, key)]
    ELSE [acc EXCEPT !.unchanged = Append(acc.unchanged, key)]

\* lines 233-251 for a key and its freshly encoded item
Place(acc, key, new_item, preserve_existing_docs) ==
    IF HasKey(acc.lookup, key)
    THEN Classify(acc, key, Lookup(acc.lookup, key),
                  Candidate(Lookup(acc.lookup, key), new_item, preserve_existing_docs))
    ELSE [acc EXCEPT !.lookup = Put(acc.lookup, key, new_item),
                     !.new = Append(acc.new, key)]

\* lines 224-251: one iteration of the loop over the endpoints
ProcessEndpoint(acc, endpoint, include_documentation, preserve_existing_docs) ==
    Place(acc, EndpointKey(endpoint),
          convert_endpoint_to_postman_item(endpoint, include_documentation),
          preserve_existing_docs)

RECURSIVE ProcessEndpoints(_, _, _, _)
ProcessEndpoints(acc, endpoints, include_documentation, preserve_existing_docs) ==
    IF endpoints = <<>> THEN acc
    ELSE ProcessEndpoints(
             ProcessEndpoint(acc, endpoints[1], include_documentation, preserve_existing_docs),
             Tail(endpoints), include_documentation, preserve_existing_docs)

\* lines 209-254: the mapping and the change report of a run
Reconcile(existing_items, endpoints, include_documentation, preserve_existing_docs) ==
    ProcessEndpoints(
        [lookup |-> BuildLookup(existing_items, <<>>), new |-> <<>>, updated |-> <<>>,
         unchanged |-> <<>>],
        endpoints, include_documentation, preserve_existing_docs)

(***************************************************************************)
(* Values of the variables a specification does not use.                   *)
(***************************************************************************)
IdleNorm == [stage |-> "idle"]

IdleMrg == [stage |-> "idle"]

NoReport == [new |-> <<>>, updated |-> <<>>, unchanged |-> <<>>]

NoApi == [shape |-> "none", endpoints |-> <<>>]

NoOpts == [doc |-> FALSE, preserve |-> FALSE]

NoOutcome == [result |-> "none", fetches |-> 0, writes |-> 0]

EmptyCollection == [items |-> <<>>, description |-> <<>>]

NoCall == [tool |-> "none", uid |-> FALSE, key |-> FALSE]

IdleDocs == [stage |-> "idle"]

IdleCmp == [stage |-> "idle"]

IdleRace == [stage |-> "idle"]

harnessVars == <<docs, cmp, race>>

HarnessIdle == docs = IdleDocs /\ cmp = IdleCmp /\ race = IdleRace

reconcilerVars == <<remote, fetched, api, opts, report, lookup, outcome, runs, rerun, call>>

ReconcilerIdle ==
    /\ remote = EmptyCollection
    /\ fetched = <<>>
    /\ api = NoApi
    /\ opts = NoOpts
    /\ report = NoReport
    /\ lookup = <<>>
    /\ outcome = NoOutcome
    /\ runs = 0
    /\ rerun = FALSE
    /\ call = NoCall

(***************************************************************************)
(* SpecPath: the path normalizer and the key codec applied to every path   *)
(* string of at most MaxPathLen tokens.                                    *)
(***************************************************************************)
PathDescriptor(p) ==
    [method |-> "GET", path |-> p, description |-> <<>>, controller |-> "", action |-> "",
     parameters |-> <<>>, responses |-> <<>>]

NoUrl == [raw |-> <<>>, hasPath |-> FALSE, path |-> <<>>, query |-> <<>>]

InitPath ==
    /\ norm \in {[stage |-> "input", path |-> p, once |-> <<>>, twice |-> <<>>,
                  url |-> NoUrl, key |-> <<>>] : p \in PathStrings}
    /\ mrg = IdleMrg
    /\ ReconcilerIdle
    /\ HarnessIdle

NormalizeOnce ==
    /\ norm.stage = "input"
    /\ norm' = [norm EXCEPT !.stage = "once", !.once = extract_clean_path_from_string(norm.path)]
    /\ UNCHANGED <<mrg, reconcilerVars, harnessVars>>

NormalizeTwice ==
    /\ norm.stage = "once"
    /\ norm' = [norm EXCEPT !.stage = "twice", !.twice = extract_clean_path_from_string(norm.once)]
    /\ UNCHANGED <<mrg, reconcilerVars, harnessVars>>

EncodeDescriptor ==
    /\ norm.stage = "input"
    /\ norm' = [norm EXCEPT !.stage = "encoded",
                    !.url = convert_endpoint_to_postman_item(PathDescriptor(norm.path), TRUE).url]
    /\ UNCHANGED <<mrg, reconcilerVars, harnessVars>>

DecodeKey ==
    /\ norm.stage = "encoded"
    /\ norm' = [norm EXCEPT !.stage = "decoded",
                    !.key = <<"GET", extract_clean_path_from_postman_url(norm.url)>>]
    /\ UNCHANGED <<mrg, reconcilerVars, harnessVars>>

NextPath == NormalizeOnce \/ NormalizeTwice \/ EncodeDescriptor \/ DecodeKey

SpecPath == InitPath /\ [][NextPath]_vars

(***************************************************************************)
(* SpecMerge: both merge functions applied to every existing text of at    *)
(* most MaxTextLen tokens and a few fresh texts.                           *)
(***************************************************************************)
RequestTextAlphabet == {RS, RE, NL, SP, "note", "## Responses", "# GET"}

CollectionTextAlphabet ==
    {CS, CE, NL, SP, "note", "Auto-generated on", "# API Collection Documentation"}

RequestFreshTexts == {<<>>, <<"note">>, <<"new">>, <<RS, "new", RE>>}

CollectionFreshTexts == {<<>>, <<"note">>, <<"new">>, <<CS, "new", CE>>}

InitMerge ==
    /\ mrg \in {[stage |-> "input", kind |-> "request", existing |-> e, fresh |-> f, out |-> <<>>,
                 again |-> <<>>] :
                    e \in SeqsUpTo(RequestTextAlphabet, MaxTextLen), f \in RequestFreshTexts}
               \cup
               {[stage |-> "input", kind |-> "collection", existing |-> e, fresh |-> f, out |-> <<>>,
                 again |-> <<>>] :
                    e \in SeqsUpTo(CollectionTextAlphabet, MaxTextLen), f \in CollectionFreshTexts}
    /\ norm = IdleNorm
    /\ ReconcilerIdle
    /\ HarnessIdle

MergeRequest ==
    /\ mrg.stage = "input"
    /\ mrg.kind = "request"
    /\ mrg' = [mrg EXCEPT !.stage = "merged",
                   !.out = merge_request_descriptions(mrg.existing, mrg.fresh)]
    /\ UNCHANGED <<norm, reconcilerVars, harnessVars>>

MergeCollection ==
    /\ mrg.stage = "input"
    /\ mrg.kind = "collection"
    /\ mrg' = [mrg EXCEPT !.stage = "merged",
                   !.out = merge_descriptions(mrg.existing, mrg.fresh)]
    /\ UNCHANGED <<norm, reconcilerVars, harnessVars>>

\* the merged text is merged with the same fresh text once more, as the next
\* run with the same descriptors does
MergeRequestAgain ==
    /\ mrg.stage = "merged"
    /\ mrg.kind = "request"
    /\ mrg' = [mrg EXCEPT !.stage = "again",
                   !.again = merge_request_descriptions(mrg.out, mrg.fresh)]
    /\ UNCHANGED <<norm, reconcilerVars, harnessVars>>

MergeCollectionAgain ==
    /\ mrg.stage = "merged"
    /\ mrg.kind = "collection"
    /\ mrg' = [mrg EXCEPT !.stage = "again",
                   !.again = merge_descriptions(mrg.out, mrg.fresh)]
    /\ UNCHANGED <<norm, reconcilerVars, harnessVars>>

NextMerge == MergeRequest \/ MergeCollection \/ MergeRequestAgain \/ MergeCollectionAgain

SpecMerge == InitMerge /\ [][NextMerge]_vars

(***************************************************************************)
(* Spec: runs of smart_update_postman_collection against a remote          *)
(* collection.  The inputs are a few descriptors and a few existing items. *)
(***************************************************************************)
Param(name, type, location, default) ==
    [name |-> name, type |-> type, required |-> FALSE, location |-> location,
     description |-> "", default |-> default]

\* GET /a, nothing else
DescA == PathDescriptor(<<"/", "a">>)

\* GET /a.json?... : the key of DescA, with a description and a query parameter
DescAJson ==
    [PathDescriptor(<<"/", "a", ".json">>) EXCEPT
        !.description = <<"plain">>,
        !.parameters = <<Param("page", "integer", "query", "")>>]

\* DescAJson with another default value of its query parameter
DescAJsonPage ==
    [DescAJson EXCEPT !.parameters = <<Param("page", "integer", "query", "2")>>]

\* GET /a/ : a trailing slash
DescASlash == PathDescriptor(<<"/", "a", "/">>)

\* POST /b with a form and a body parameter, a controller and a response
DescB ==
    [method |-> "POST", path |-> <<"/", "b">>, description |-> <<"plain">>,
     controller |-> "C", action |-> "x",
     parameters |-> <<Param("f", "string", "form", ""), Param("g", "integer", "body", "")>>,
     responses |-> <<[status |-> "200", description |-> "", example |-> ""]>>]

Descriptors == {DescA, DescAJson, DescAJsonPage, DescASlash, DescB}

Batches == SeqsUpTo(Descriptors, MaxBatch)

NoBody == [mode |-> "none", entries |-> <<>>]

\* an item without "request" (a folder)
Folder ==
    [hasRequest |-> FALSE, name |-> <<"folder">>, method |-> "GET", header |-> <<>>,
     url |-> NoUrl, body |-> NoBody, description |-> <<>>]

\* GET /a, renamed by hand, with a hand-written description
HandItem(description) ==
    [hasRequest |-> TRUE, name |-> <<"custom">>, method |-> "GET", header |-> <<>>,
     url |-> [raw |-> <<"/", "a">>, hasPath |-> TRUE, path |-> << <<"a">> >>, query |-> <<>>],
     body |-> NoBody, description |-> description]

\* POST /b?x, stored with a raw url only
RawItem ==
    [hasRequest |-> TRUE, name |-> <<"custom">>, method |-> "POST", header |-> <<>>,
     url |-> [raw |-> <<"/", "b", "?", "a">>, hasPath |-> FALSE, path |-> <<>>, query |-> <<>>],
     body |-> NoBody, description |-> <<"note">>]

\* an item a run with include_documentation wrote for DescA
EncodedItem == convert_endpoint_to_postman_item(DescA, TRUE)

ExistingItems ==
    {Folder, RawItem, EncodedItem,
     HandItem(<<"note">>),
     HandItem(<<"note", SP, "## Responses">>)}

InitialCollections ==
    {[items |-> i, description |-> <<"about">>] : i \in SeqsUpTo(ExistingItems, MaxExisting)}

\* datetime.now() to the second, for runs at least a second apart
TimestampOf(run) ==
    CASE run = 0 -> "t0" [] run = 1 -> "t1" [] run = 2 -> "t2" [] OTHER -> "t3"

Init ==
    /\ remote \in InitialCollections
    /\ fetched = <<>>
    /\ api = NoApi
    /\ opts = NoOpts
    /\ report = NoReport
    /\ lookup = <<>>
    /\ outcome = NoOutcome
    /\ runs = 0
    /\ rerun = FALSE
    /\ call = NoCall
    /\ norm = IdleNorm
    /\ mrg = IdleMrg
    /\ HarnessIdle

\* smart_update_postman_collection called with both credentials at hand
\* (lines 178-185 passed)
SmartUpdateCall == [tool |-> "smart_update", uid |-> TRUE, key |-> TRUE]

\* the last run got as far as writing the collection back
Written == outcome.writes = 1 /\ outcome.result \in {"ok", "no_endpoints_found"}

\* lines 259-274: the status message is "No endpoints found ..." when no
\* endpoint was processed and no documentation was requested
StatusResult(acc, include_documentation) ==
    IF acc.new = <<>> /\ acc.updated = <<>> /\ acc.unchanged = <<>> /\ ~include_documentation
    THEN "no_endpoints_found" ELSE "ok"

\* a run that ends before the loop over the endpoints
Aborted(shape, endpoints, result, fetches) ==
    /\ api' = [shape |-> shape, endpoints |-> endpoints]
    /\ opts' = [doc |-> TRUE, preserve |-> TRUE]
    /\ outcome' = [result |-> result, fetches |-> fetches, writes |-> 0]
    /\ fetched' = IF fetches = 1 /\ result # "error_fetch" THEN remote.items ELSE <<>>
    /\ report' = NoReport
    /\ lookup' = <<>>
    /\ runs' = runs + 1
    /\ rerun' = FALSE
    /\ call' = SmartUpdateCall
    /\ UNCHANGED <<remote, norm, mrg, harnessVars>>

\* lines 253-274: the rebuilt collection is written back and the status
\* message returned
WriteBack(acc, shape, endpoints, doc, preserve) ==
    /\ api' = [shape |-> shape, endpoints |-> endpoints]
    /\ opts' = [doc |-> doc, preserve |-> preserve]
    /\ fetched' = remote.items
    /\ lookup' = acc.lookup
    /\ report' = [new |-> acc.new, updated |-> acc.updated, unchanged |-> acc.unchanged]
    /\ remote' = [items |-> Values(acc.lookup),
                  description |-> CollectionDescription(remote.description, endpoints,
                                                        TimestampOf(runs), doc, preserve)]
    /\ outcome' = [result |-> StatusResult(acc, doc), fetches |-> 1, writes |-> 1]
    /\ runs' = runs + 1
    /\ call' = SmartUpdateCall
    /\ UNCHANGED <<norm, mrg, harnessVars>>

\* lines 195-274 for a dict (endpoints_data.get("endpoints", []) is the empty
\* list when the key is missing): fetch, rebuild the collection, write it
\* back, return the status message
Completed(shape, endpoints, doc, preserve) ==
    WriteBack(Reconcile(remote.items, endpoints, doc, preserve), shape, endpoints, doc, preserve)

\* a variant that calls the write collaborator a second time after it raised
WriteRaisedTwice(acc, endpoints, doc, preserve) ==
    /\ api' = [shape |-> "dict", endpoints |-> endpoints]
    /\ opts' = [doc |-> doc, preserve |-> preserve]
    /\ lookup' = acc.lookup
    /\ report' = [new |-> acc.new, updated |-> acc.updated, unchanged |-> acc.unchanged]
    /\ fetched' = remote.items
    /\ outcome' = [result |-> "error_update", fetches |-> 1, writes |-> 2]
    /\ runs' = runs + 1
    /\ rerun' = FALSE
    /\ call' = SmartUpdateCall
    /\ UNCHANGED <<remote, norm, mrg, harnessVars>>

\* line 257 raises: the collection was rebuilt and the write attempted
WriteRaised(acc, endpoints, doc, preserve) ==
    /\ api' = [shape |-> "dict", endpoints |-> endpoints]
    /\ opts' = [doc |-> doc, preserve |-> preserve]
    /\ lookup' = acc.lookup
    /\ report' = [new |-> acc.new, updated |-> acc.updated, unchanged |-> acc.unchanged]
    /\ fetched' = remote.items
    /\ outcome' = [result |-> "error_update", fetches |-> 1, writes |-> 1]
    /\ runs' = runs + 1
    /\ rerun' = FALSE
    /\ call' = SmartUpdateCall
    /\ UNCHANGED <<remote, norm, mrg, harnessVars>>

\* lines 187-193 and 276-277: api_data is neither a str nor a dict, or a str
\* that is not JSON: the tool returns an error before it fetches
RejectApiData ==
    /\ runs = 0
    /\ \E shape \in {"not_str_or_dict", "bad_json"} :
        Aborted(shape, <<>>, IF shape = "bad_json" THEN "error_parse" ELSE "error_type", 0)

\* line 196: get_postman_collection raises; line 278 returns the error text
FetchFails ==
    /\ runs = 0
    /\ \E shape \in {"dict", "no_endpoints", "json_not_dict"} :
        Aborted(shape, IF shape = "dict" THEN <<DescA>> ELSE <<>>, "error_fetch", 1)

\* api_data is JSON text of something that is no dict (a list): the fetch is
\* made, then endpoints_data.get raises (line 201 or 224) and line 278
\* returns the error text
ShapeError ==
    /\ runs = 0
    /\ Aborted("json_not_dict", <<>>, "error_update", 1)

\* a first run with any api_data dict and any flags
SmartUpdate ==
    /\ runs = 0
    /\ \E shape \in {"dict", "no_endpoints"}, doc \in BOOLEAN, preserve \in BOOLEAN :
       \E endpoints \in (IF shape = "dict" THEN Batches ELSE {<<>>}) :
            Completed(shape, endpoints, doc, preserve)
    /\ rerun' = FALSE

\* the same api_data and flags again, against the collection the run before
\* wrote
RepeatUpdate ==
    /\ runs > 0
    /\ runs < MaxRuns
    /\ Written
    /\ Completed(api.shape, api.endpoints, opts.doc, opts.preserve)
    /\ rerun' = TRUE

\* line 257: update_postman_via_api raises after the collection was rebuilt;
\* line 278 returns the error text and the remote collection stays as it was
WriteFails ==
    /\ runs = 0
    /\ \E doc \in BOOLEAN, preserve \in BOOLEAN, endpoints \in {<<>>, <<DescA>>} :
        WriteRaised(Reconcile(remote.items, endpoints, doc, preserve), endpoints, doc, preserve)

(***************************************************************************)
(* Missing credentials, and preview_postman_changes.                       *)
(***************************************************************************)
\* a variant that looks at the credentials only after the fetch
CredentialCheckLate(tool, uid, key) ==
    [result |-> IF tool = "preview" THEN "error_credentials"
                ELSE IF ~uid THEN "error_no_uid" ELSE "error_no_key",
     fetches |-> 1, writes |-> 0]

\* lines 178-185 and 120-124: the tool returns the error text at once when
\* the collection uid or the api key is neither passed nor in the environment
CredentialCheck(tool, uid, key) ==
    [result |-> IF tool = "preview" THEN "error_credentials"
                ELSE IF ~uid THEN "error_no_uid" ELSE "error_no_key",
     fetches |-> 0, writes |-> 0]

\* a call that ends without a change report and without a write
Refused(tool, uid, key, shape, endpoints, end) ==
    /\ call' = [tool |-> tool, uid |-> uid, key |-> key]
    /\ api' = [shape |-> shape, endpoints |-> endpoints]
    /\ opts' = NoOpts
    /\ outcome' = end
    /\ fetched' = <<>>
    /\ report' = NoReport
    /\ lookup' = <<>>
    /\ rerun' = FALSE
    /\ runs' = runs + 1
    /\ UNCHANGED <<remote, norm, mrg, harnessVars>>

\* either tool called without the collection uid or without the api key,
\* whatever the api_data
MissingCredential ==
    /\ runs = 0
    /\ \E tool \in {"smart_update", "preview"}, uid \in BOOLEAN, key \in BOOLEAN,
          shape \in {"dict", "bad_json", "not_str_or_dict"} :
        /\ ~(uid /\ key)
        /\ Refused(tool, uid, key, shape, IF shape = "dict" THEN <<DescA>> ELSE <<>>,
                   CredentialCheck(tool, uid, key))

PreviewCall == [tool |-> "preview", uid |-> TRUE, key |-> TRUE]

\* lines 126-132 and 143-144: api_data is neither a str nor a dict, or a str
\* that is not JSON
PreviewRejectApiData ==
    /\ runs = 0
    /\ \E shape \in {"not_str_or_dict", "bad_json"} :
        Refused("preview", TRUE, TRUE, shape, <<>>,
                [result |-> IF shape = "bad_json" THEN "error_parse" ELSE "error_type",
                 fetches |-> 0, writes |-> 0])

\* line 135: get_postman_collection raises; line 146 returns the error text
PreviewFetchFails ==
    /\ runs = 0
    /\ \E shape \in {"dict", "no_endpoints", "json_not_dict"} :
        Refused("preview", TRUE, TRUE, shape, IF shape = "dict" THEN <<DescA>> ELSE <<>>,
                [result |-> "error_fetch", fetches |-> 1, writes |-> 0])

\* lines 572-601: one iteration of the loop of analyze_postman_changes; the
\* mapping is only read
AnalyzeEndpoint(acc, lk, endpoint) ==
    LET key == EndpointKey(endpoint)
    IN  IF HasKey(lk, key)
        THEN IF compare_postman_items(Lookup(lk, key),
                                      convert_endpoint_to_postman_item(endpoint, TRUE)).has_changes
             THEN [acc EXCEPT !.updated = Append(acc.updated, key)]
             ELSE [acc EXCEPT !.unchanged = Append(acc.unchanged, key)]
        ELSE [acc EXCEPT !.new = Append(acc.new, key)]

RECURSIVE AnalyzeEndpoints(_, _, _)
AnalyzeEndpoints(acc, lk, endpoints) ==
    IF endpoints = <<>> THEN acc
    ELSE AnalyzeEndpoints(AnalyzeEndpoint(acc, lk, endpoints[1]), lk, Tail(endpoints))

analyze_postman_changes(existing_items, endpoints) ==
    AnalyzeEndpoints(NoReport, BuildLookup(existing_items, <<>>), endpoints)

\* a variant of the preview that hands the items of its mapping to the
\* write collaborator
PreviewedAndWritten(changes, shape, endpoints) ==
    /\ call' = PreviewCall
    /\ api' = [shape |-> shape, endpoints |-> endpoints]
    /\ opts' = NoOpts
    /\ fetched' = remote.items
    /\ lookup' = BuildLookup(remote.items, <<>>)
    /\ report' = changes
    /\ outcome' = [result |-> "preview", fetches |-> 1, writes |-> 1]
    /\ remote' = [remote EXCEPT !.items = Values(BuildLookup(remote.items, <<>>))]
    /\ rerun' = FALSE
    /\ runs' = runs + 1
    /\ UNCHANGED <<norm, mrg, harnessVars>>

\* lines 134-141: fetch, analyze, render the preview text
Previewed(changes, shape, endpoints) ==
    /\ call' = PreviewCall
    /\ api' = [shape |-> shape, endpoints |-> endpoints]
    /\ opts' = NoOpts
    /\ fetched' = remote.items
    /\ lookup' = BuildLookup(remote.items, <<>>)
    /\ report' = changes
    /\ outcome' = [result |-> "preview", fetches |-> 1, writes |-> 0]
    /\ rerun' = FALSE
    /\ runs' = runs + 1
    /\ UNCHANGED <<remote, norm, mrg, harnessVars>>

\* api_data is JSON text of a list: the fetch is made, then
\* new_endpoints_data.get raises (line 579) and line 146 returns the error text
PreviewShapeError ==
    /\ runs = 0
    /\ call' = PreviewCall
    /\ api' = [shape |-> "json_not_dict", endpoints |-> <<>>]
    /\ opts' = NoOpts
    /\ fetched' = remote.items
    /\ lookup' = <<>>
    /\ report' = NoReport
    /\ outcome' = [result |-> "error_preview", fetches |-> 1, writes |-> 0]
    /\ rerun' = FALSE
    /\ runs' = runs + 1
    /\ UNCHANGED <<remote, norm, mrg, harnessVars>>

\* a preview of any api_data dict
PreviewChanges ==
    /\ runs = 0
    /\ \E shape \in {"dict", "no_endpoints"} :
       \E endpoints \in (IF shape = "dict" THEN Batches ELSE {<<>>}) :
            Previewed(analyze_postman_changes(remote.items, endpoints), shape, endpoints)

Next ==
    \/ RejectApiData \/ FetchFails \/ ShapeError \/ SmartUpdate \/ RepeatUpdate \/ WriteFails
    \/ MissingCredential \/ PreviewRejectApiData \/ PreviewFetchFails \/ PreviewShapeError
    \/ PreviewChanges

Spec == Init /\ [][Next]_vars

(***************************************************************************)
(* SpecDocs: generate_api_documentation for every api_data shape, batch,   *)
(* format_type and template_style of the sets below.                       *)
(***************************************************************************)
RequiredMark(p) == IF p.required THEN "Yes" ELSE "No"

\* param.get("description", "No description provided")
TableDescription(p) == IF p.description = "" THEN "No description provided" ELSE p.description

RECURSIVE TableRows(_)
\* "| `{name}` | `{param_type}` | {required} | {param_desc} |\n" for each parameter
TableRows(ps) ==
    IF ps = <<>> THEN <<>>
    ELSE <<"|", ps[1].name, ps[1].type, RequiredMark(ps[1]), TableDescription(ps[1]), NL>>
         \o TableRows(Tail(ps))

TableHead ==
    <<"| Name | Type | Required | Description |", NL, "|------|------|----------|-------------|", NL>>

\* a titled parameter table, nothing for no parameter
ParamTable(title, ps) ==
    IF ps = <<>> THEN <<>>
    ELSE <<title>> \o BlankLine \o TableHead \o TableRows(ps) \o <<NL>>

\* lines 1065-1087: the JSON table when there are body parameters, else the
\* form table
RequestBodyTable(body_params, form_params) ==
    IF body_params # <<>> \/ form_params # <<>>
    THEN <<"#### Request Body">> \o BlankLine
         \o <<"**Content-Type:**", DocContentType(body_params)>> \o BlankLine
         \o TableHead
         \o TableRows(IF body_params # <<>> THEN body_params ELSE form_params)
         \o <<NL>>
    ELSE <<>>

\* lines 1100-1108 for the status codes of the model
StatusMark(status) ==
    CASE status \in {"200", "201"} -> "2xx"
      [] status \in {"404", "422"} -> "4xx"
      [] status \in {"500"} -> "5xx"
      [] OTHER -> "info"

RECURSIVE DetailedResponses(_)
DetailedResponses(rs) ==
    IF rs = <<>> THEN <<>>
    ELSE <<"####", StatusMark(rs[1].status), rs[1].status, "-">>
         \o OptionalToken(rs[1].description) \o BlankLine
         \o (IF rs[1].example # ""
             THEN <<"**Example Response:**">> \o BlankLine
                  \o <<"~~~json", NL, rs[1].example, NL, "~~~">> \o BlankLine
             ELSE <<>>)
         \o DetailedResponses(Tail(rs))

\* lines 1001-1116: the section of the i-th of n endpoints
DetailedSection(endpoint, i, n) ==
    LET parameters == endpoint.parameters
    IN  <<"##", CountToken(i), endpoint.method>>
        \o extract_clean_path_from_string(endpoint.path) \o BlankLine
        \o (IF endpoint.description # <<>>
            THEN <<"**Description:**">> \o endpoint.description \o BlankLine ELSE <<>>)
        \o (IF endpoint.controller # "" /\ endpoint.action # ""
            THEN <<"**Controller:**", endpoint.controller, "#", endpoint.action>> \o BlankLine
            ELSE <<>>)
        \o (IF parameters # <<>>
            THEN <<"### Parameters">> \o BlankLine
                 \o ParamTable("#### Query Parameters", ParamsAt(parameters, "query"))
                 \o ParamTable("#### Path Parameters", ParamsAt(parameters, "path"))
                 \o ParamTable("#### Header Parameters", ParamsAt(parameters, "header"))
                 \o RequestBodyTable(ParamsAt(parameters, "body"), ParamsAt(parameters, "form"))
            ELSE <<"### Parameters">> \o BlankLine \o <<"*No parameters required.*">> \o BlankLine)
        \o (IF endpoint.responses # <<>>
            THEN <<"### Responses">> \o BlankLine \o DetailedResponses(endpoint.responses)
            ELSE <<"### Responses">> \o BlankLine
                 \o <<"*No response examples available.*">> \o BlankLine)
        \o (IF i < n THEN <<"---">> \o BlankLine ELSE <<>>)

RECURSIVE DetailedSections(_, _, _)
DetailedSections(endpoints, i, n) ==
    IF endpoints = <<>> THEN <<>>
    ELSE DetailedSection(endpoints[1], i, n) \o DetailedSections(Tail(endpoints), i + 1, n)

generate_detailed_markdown(endpoints, timestamp) ==
    <<"# API Documentation">> \o BlankLine
    \o <<"This documentation was auto-generated from Rails controller analysis.">> \o BlankLine
    \o <<"---">> \o BlankLine
    \o DetailedSections(endpoints, 1, Len(endpoints))
    \o <<NL, "---">> \o BlankLine
    \o <<"*Generated on", timestamp, NL>>

RECURSIVE CompactLines(_)
\* "- **{clean_path}**" [" - {description}"] [" (`{controller}#{action}`)"] "\n"
CompactLines(endpoints) ==
    IF endpoints = <<>> THEN <<>>
    ELSE <<"- **">> \o extract_clean_path_from_string(endpoints[1].path)
         \o (IF endpoints[1].description # <<>>
             THEN <<SP, "-", SP>> \o endpoints[1].description ELSE <<>>)
         \o (IF endpoints[1].controller # "" /\ endpoints[1].action # ""
             THEN <<"(", endpoints[1].controller, "#", endpoints[1].action, ")">> ELSE <<>>)
         \o <<NL>> \o CompactLines(Tail(endpoints))

\* the section of one HTTP method, nothing when no endpoint has it
MethodGroup(endpoints, method) ==
    LET group == SelectSeq(endpoints, LAMBDA e : e.method = method)
    IN  IF group = <<>> THEN <<>>
        ELSE <<"##", method, "Endpoints">> \o BlankLine \o CompactLines(group) \o <<NL>>

generate_compact_markdown(endpoints, timestamp) ==
    <<"# API Endpoints">> \o BlankLine
    \o <<"Quick reference for all available API endpoints.">> \o BlankLine
    \o MethodGroup(endpoints, "GET") \o MethodGroup(endpoints, "POST")
    \o MethodGroup(endpoints, "PUT") \o MethodGroup(endpoints, "PATCH")
    \o MethodGroup(endpoints, "DELETE")
    \o <<"*Generated on", timestamp, NL>>

NoEndpointsText ==
    <<"# API Documentation">> \o BlankLine
    \o <<"No endpoints found in the provided data.", NL>>

\* a variant that reports an unrecognized style
generate_markdown_docs_strict(endpoints, style, timestamp) ==
    IF endpoints = <<>> THEN [status |-> "ok", text |-> NoEndpointsText]
    ELSE IF style = "detailed"
         THEN [status |-> "ok", text |-> generate_detailed_markdown(endpoints, timestamp)]
    ELSE IF style = "compact"
         THEN [status |-> "ok", text |-> generate_compact_markdown(endpoints, timestamp)]
    ELSE [status |-> "error_style", text |-> <<>>]

\* lines 981-993: any style but "compact" gives the detailed rendering
generate_markdown_docs(endpoints, style, timestamp) ==
    IF endpoints = <<>> THEN [status |-> "ok", text |-> NoEndpointsText]
    ELSE IF style = "detailed"
         THEN [status |-> "ok", text |-> generate_detailed_markdown(endpoints, timestamp)]
    ELSE IF style = "compact"
         THEN [status |-> "ok", text |-> generate_compact_markdown(endpoints, timestamp)]
    ELSE [status |-> "ok", text |-> generate_detailed_markdown(endpoints, timestamp)]

\* json.dumps(endpoints_data, indent=2): the data as JSON text
JsonDump(shape, endpoints) ==
    <<"json.dumps", shape>> \o [i \in 1..Len(endpoints) |-> endpoints[i].method]

\* lines 298-317
generate_api_documentation(shape, endpoints, format_type, template_style, timestamp) ==
    IF shape = "bad_json" THEN [status |-> "error_parse", text |-> <<>>]
    ELSE IF shape = "not_str_or_dict" THEN [status |-> "error_type", text |-> <<>>]
    ELSE IF format_type = "markdown"
         THEN IF shape = "json_not_dict" THEN [status |-> "error_generate", text |-> <<>>]
              ELSE generate_markdown_docs(endpoints, template_style, timestamp)
    ELSE IF format_type = "json"
         THEN [status |-> "ok", text |-> JsonDump(shape, endpoints)]
    ELSE [status |-> "error_format", text |-> <<>>]

DocShapes == {"dict", "no_endpoints", "bad_json", "not_str_or_dict", "json_not_dict"}

FormatTypes == {"markdown", "json", "yaml"}

TemplateStyles == {"detailed", "compact", "fancy"}

InitDocs ==
    /\ docs \in {[stage |-> "input", shape |-> sh, endpoints |-> e, format_type |-> f,
                  template_style |-> t, out |-> [status |-> "none", text |-> <<>>]] :
                    sh \in {"dict"}, e \in Batches, f \in FormatTypes, t \in TemplateStyles}
                \cup
                {[stage |-> "input", shape |-> sh, endpoints |-> <<>>, format_type |-> f,
                  template_style |-> t, out |-> [status |-> "none", text |-> <<>>]] :
                    sh \in DocShapes \ {"dict"}, f \in FormatTypes, t \in TemplateStyles}
    /\ norm = IdleNorm
    /\ mrg = IdleMrg
    /\ cmp = IdleCmp
    /\ race = IdleRace
    /\ ReconcilerIdle

GenerateDocumentation ==
    /\ docs.stage = "input"
    /\ docs' = [docs EXCEPT !.stage = "done",
                    !.out = generate_api_documentation(docs.shape, docs.endpoints, docs.format_type,
                                                       docs.template_style, TimestampOf(0))]
    /\ UNCHANGED <<norm, mrg, cmp, race, reconcilerVars>>

NextDocs == GenerateDocumentation

SpecDocs == InitDocs /\ [][NextDocs]_vars

(***************************************************************************)
(* SpecCodec: convert_endpoint_to_postman_item applied to descriptors with *)
(* every list of at most MaxParams parameters of the pool, and             *)
(* compare_postman_items applied to every pair of items of the pool.       *)
(***************************************************************************)
CodecParams ==
    {Param("q", "string", "query", ""), Param("g", "integer", "body", ""),
     Param("f", "string", "form", ""), Param("k", "string", "form", "1"),
     Param("h", "string", "header", ""), Param("id", "integer", "path", "")}

\* the query parameter added to a descriptor
ExtraQueryParams == {Param("q", "string", "query", ""), Param("page", "integer", "query", "1")}

CodecDescriptors ==
    {[PathDescriptor(<<"/", "a", ".json">>) EXCEPT !.parameters = ps, !.description = d] :
        ps \in SeqsUpTo(CodecParams, MaxParams), d \in {<<>>, <<"plain">>}}

NoComparison == [has_changes |-> FALSE, request_changes |-> {}, documentation_changes |-> {}]

HeaderLists ==
    LET X1 == [key |-> "X", value |-> "1", description |-> ""]
        X2 == [key |-> "X", value |-> "2", description |-> ""]
        Y1 == [key |-> "Y", value |-> "1", description |-> ""]
    IN  {<<>>, <<X1>>, <<X2>>, <<X1, Y1>>, <<Y1, X1>>, <<X1, X2>>}

QueryLists ==
    LET a == [key |-> "a", value |-> "", disabled |-> FALSE, description |-> ""]
        b == [key |-> "b", value |-> "", disabled |-> FALSE, description |-> ""]
    IN  {<<>>, <<a>>, <<a, b>>, <<a, a>>}

\* no body, two raw bodies of different content, a form body
Bodies ==
    {NoBody,
     [mode |-> "raw", entries |-> <<[key |-> "g", value |-> "0"]>>],
     [mode |-> "raw", entries |-> <<[key |-> "g", value |-> "1"]>>],
     [mode |-> "urlencoded", entries |-> <<>>]}

ItemPool ==
    {[hasRequest |-> TRUE, name |-> <<"custom">>, method |-> "GET", header |-> h,
      url |-> [raw |-> <<"/", "a">>, hasPath |-> TRUE, path |-> << <<"a">> >>, query |-> q],
      body |-> b, description |-> d] :
        h \in HeaderLists, q \in QueryLists, b \in Bodies, d \in {<<>>, <<"note">>}}

InitCodec ==
    /\ cmp \in {[stage |-> "input", kind |-> "encode", endpoint |-> e, extra |-> x, doc |-> doc,
                 existing |-> Folder, new |-> Folder, grown |-> Folder,
                 same |-> NoComparison, changes |-> NoComparison] :
                    e \in CodecDescriptors, x \in ExtraQueryParams, doc \in BOOLEAN}
               \cup
               {[stage |-> "input", kind |-> "compare", endpoint |-> DescA, extra |-> Param("q", "string", "query", ""),
                 doc |-> FALSE, existing |-> l, new |-> r, grown |-> Folder,
                 same |-> NoComparison, changes |-> NoComparison] :
                    l \in ItemPool, r \in ItemPool}
    /\ norm = IdleNorm
    /\ mrg = IdleMrg
    /\ docs = IdleDocs
    /\ race = IdleRace
    /\ ReconcilerIdle

\* the descriptor with one more query parameter
WithExtraQuery(endpoint, extra) ==
    [endpoint EXCEPT !.parameters = Append(endpoint.parameters, extra)]

\* the descriptor is encoded twice, and once more with the added query
\* parameter; the first encoding is compared with both
EncodeAndCompare ==
    /\ cmp.stage = "input"
    /\ cmp.kind = "encode"
    /\ LET first == convert_endpoint_to_postman_item(cmp.endpoint, cmp.doc)
           second == convert_endpoint_to_postman_item(cmp.endpoint, cmp.doc)
           grown == convert_endpoint_to_postman_item(WithExtraQuery(cmp.endpoint, cmp.extra), cmp.doc)
       IN  cmp' = [cmp EXCEPT !.stage = "done", !.existing = first, !.new = second,
                       !.grown = grown,
                       !.same = compare_postman_items(first, second),
                       !.changes = compare_postman_items(first, grown)]
    /\ UNCHANGED <<norm, mrg, docs, race, reconcilerVars>>

CompareItems ==
    /\ cmp.stage = "input"
    /\ cmp.kind = "compare"
    /\ cmp' = [cmp EXCEPT !.stage = "done",
                   !.changes = compare_postman_items(cmp.existing, cmp.new)]
    /\ UNCHANGED <<norm, mrg, docs, race, reconcilerVars>>

NextCodec == EncodeAndCompare \/ CompareItems

SpecCodec == InitCodec /\ [][NextCodec]_vars

(***************************************************************************)
(* SpecRace: two runs of smart_update_postman_collection against one       *)
(* remote collection, their fetches and writes interleaved in every order. *)
(***************************************************************************)
Runs == {1, 2}

RaceBatches == {<<DescA>>, <<DescB>>, <<DescAJson, DescB>>}

RaceOptions == {[doc |-> FALSE, preserve |-> FALSE], [doc |-> TRUE, preserve |-> TRUE]}

NoRun ==
    [pc |-> "start", endpoints |-> <<>>, opts |-> NoOpts, snapshot |-> EmptyCollection,
     data |-> EmptyCollection]

InitRace ==
    /\ remote \in InitialCollections
    /\ race = [stage |-> "running", run |-> [r \in Runs |-> NoRun], events |-> <<>>,
               initial |-> remote]
    /\ fetched = <<>>
    /\ api = NoApi
    /\ opts = NoOpts
    /\ report = NoReport
    /\ lookup = <<>>
    /\ outcome = NoOutcome
    /\ runs = 0
    /\ rerun = FALSE
    /\ call = NoCall
    /\ norm = IdleNorm
    /\ mrg = IdleMrg
    /\ docs = IdleDocs
    /\ cmp = IdleCmp

\* lines 196-254: the collection a run builds from the snapshot it fetched
ComputedCollection(snapshot, endpoints, doc, preserve, timestamp) ==
    [items |-> Values(Reconcile(snapshot.items, endpoints, doc, preserve).lookup),
     description |-> CollectionDescription(snapshot.description, endpoints, timestamp,
                                           doc, preserve)]

\* a variant of the write in which the items of the stored collection that
\* the data does not have are kept
update_postman_via_api_merge(stored, collection_data) ==
    [collection_data EXCEPT
        !.items = collection_data.items
                  \o SelectSeq(stored.items,
                               LAMBDA it : \A i \in 1..Len(collection_data.items) :
                                                collection_data.items[i] # it)]

\* requests.put(.../collections/{uid}, json=collection_data): the stored
\* collection is replaced by the data sent
update_postman_via_api(stored, collection_data) == collection_data

\* run r fetches the collection and rebuilds it (lines 196-254)
RaceFetch(r) ==
    /\ race.stage = "running"
    /\ race.run[r].pc = "start"
    /\ \E endpoints \in RaceBatches, o \in RaceOptions :
            race' = [race EXCEPT
                !.run[r] = [pc |-> "fetched", endpoints |-> endpoints, opts |-> o,
                            snapshot |-> remote,
                            data |-> ComputedCollection(remote, endpoints, o.doc, o.preserve,
                                                        TimestampOf(Len(race.events)))],
                !.events = Append(race.events, [op |-> "fetch", run |-> r])]
    /\ UNCHANGED <<reconcilerVars, norm, mrg, docs, cmp>>

\* run r writes the collection it rebuilt (line 257)
RaceWrite(r) ==
    /\ race.stage = "running"
    /\ race.run[r].pc = "fetched"
    /\ remote' = update_postman_via_api(remote, race.run[r].data)
    /\ race' = [race EXCEPT !.run[r].pc = "written",
                    !.events = Append(race.events, [op |-> "write", run |-> r])]
    /\ UNCHANGED <<fetched, api, opts, report, lookup, outcome, runs, rerun, call,
                   norm, mrg, docs, cmp>>

NextRace == \E r \in Runs : RaceFetch(r) \/ RaceWrite(r)

SpecRace == InitRace /\ [][NextRace]_vars

(***************************************************************************)
(* Properties of the path normalizer and the key codec.                    *)
(***************************************************************************)
\* C6: the key decoded from the encoded item of a descriptor is the
\* descriptor's own key (method, normalized path).
C6_KeyStableUnderEncoding ==
    norm.stage = "decoded" =>
        norm.key = <<"GET", extract_clean_path_from_string(norm.path)>>

\* a path with a trailing slash was encoded and decoded to another key
C6_Witness ==
    /\ norm.stage = "decoded"
    /\ norm.path = <<"/", "a", "/">>
    /\ extract_clean_path_from_string(norm.path) = <<"/", "a", "/">>
    /\ norm.key = <<"GET", <<"/", "a">>>>

\* C7: normalizing the normalizer's output changes nothing, for every input
\* string.
C7_IdempotentForAll == norm.stage = "twice" => norm.twice = norm.once

\* a path with two format suffixes lost one suffix in each pass
C7_Witness ==
    /\ norm.stage = "twice"
    /\ norm.path = <<"/", "a", ".json", ".xml">>
    /\ norm.once = <<"/", "a", ".json">>
    /\ norm.twice = <<"/", "a">>

(***************************************************************************)
(* Properties of the merge engine.                                         *)
(***************************************************************************)
StartMarker(kind) == IF kind = "request" THEN RS ELSE CS

EndMarker(kind) == IF kind = "request" THEN RE ELSE CE

Legacy(kind, existing) ==
    IF kind = "request" THEN RequestLegacy(existing) ELSE CollectionLegacy(existing)

\* the marked merge as specified: split on the start marker, then split the
\* remainder on the end marker
SpecifiedMarkedMerge(existing, fresh, start, end) ==
    LET before == Strip(SplitHead(existing, start))
        remainder == SplitRest(existing, start)
        after == Strip(SplitRest(remainder, end))
    IN  (IF before # <<>> THEN before \o BlankLine ELSE <<>>)
        \o fresh
        \o (IF after # <<>> THEN BlankLine \o after ELSE <<>>)

MergedDistinct ==
    /\ mrg.stage = "merged"
    /\ mrg.existing # <<>>
    /\ mrg.fresh # <<>>
    /\ mrg.existing # mrg.fresh

HasMarkerPair ==
    /\ Contains(mrg.existing, StartMarker(mrg.kind))
    /\ Contains(mrg.existing, EndMarker(mrg.kind))

\* C8: with both markers in the existing text the result is trimmed before +
\* fresh + trimmed after, where after is what follows the end marker in the
\* remainder after the start marker.
C8_MarkedMergeSplitsRemainder ==
    (MergedDistinct /\ HasMarkerPair) =>
        mrg.out = SpecifiedMarkedMerge(mrg.existing, mrg.fresh,
                                       StartMarker(mrg.kind), EndMarker(mrg.kind))

\* an end marker ahead of the marker pair: the old block and both of its
\* markers are in the result again
C8_Witness ==
    /\ mrg.stage = "merged"
    /\ mrg.kind = "request"
    /\ mrg.existing = <<RE, RS, RE>>
    /\ mrg.fresh = <<"new">>
    /\ mrg.out = <<RE, NL, NL, "new", NL, NL, RS, RE>>

\* C9: a non-empty existing text that differs from the non-empty fresh text,
\* lacks the marker pair and matches no legacy fingerprint is kept whole:
\* the result is existing + "\n\n---\n\n" + fresh.
C9_UnmarkedTextIsKept ==
    (MergedDistinct /\ ~HasMarkerPair /\ ~Legacy(mrg.kind, mrg.existing)) =>
        mrg.out = mrg.existing \o RuleSeparator \o mrg.fresh

\* a hand-written note with a lone start marker was merged with a generated block
C9_Witness ==
    /\ mrg.stage = "merged"
    /\ mrg.kind = "request"
    /\ mrg.existing = <<"note", RS>>
    /\ mrg.fresh = <<RS, "new", RE>>
    /\ mrg.out = <<"note", RS, NL, NL, "---", NL, NL, RS, "new", RE>>

\* the one policy, given a sentinel pair and whether the existing text
\* matches a legacy fingerprint: the branch taken and the text built
MergePolicy(existing, fresh, start, end, legacy) ==
    IF existing = <<>> THEN [branch |-> "no_existing", out |-> fresh]
    ELSE IF fresh = <<>> THEN [branch |-> "no_fresh", out |-> existing]
    ELSE IF existing = fresh THEN [branch |-> "equal", out |-> existing]
    ELSE IF Contains(existing, start) /\ Contains(existing, end)
    THEN LET before == Strip(SplitHead(existing, start))
             after == Strip(SplitRest(existing, end))
         IN  [branch |-> "marked",
              out |-> (IF before # <<>> THEN before \o BlankLine ELSE <<>>)
                      \o fresh
                      \o (IF after # <<>> THEN BlankLine \o after ELSE <<>>)]
    ELSE IF legacy THEN [branch |-> "legacy", out |-> fresh]
    ELSE [branch |-> "appended", out |-> existing \o RuleSeparator \o fresh]

\* a request text with the collection's sentinel pair in place of its own
AsCollectionText(t) ==
    [i \in 1..Len(t) |-> IF t[i] = RS THEN CS ELSE IF t[i] = RE THEN CE ELSE t[i]]

\* no token of the text is a fingerprint of either class
FingerprintFree(t) ==
    \A i \in 1..Len(t) : t[i] \in {RS, RE, CS, CE, NL, SP, "note", "new"}

\* C19: each merge function is the one policy with its own sentinel pair and
\* its own legacy fingerprints; and on texts without fingerprints the
\* collection merge of the texts with the sentinels exchanged is the request
\* merge with the sentinels exchanged.
C19_OnePolicyTwoTextClasses ==
    mrg.stage = "merged" =>
        /\ mrg.out = MergePolicy(mrg.existing, mrg.fresh, StartMarker(mrg.kind),
                                 EndMarker(mrg.kind), Legacy(mrg.kind, mrg.existing)).out
        /\ (mrg.kind = "request" /\ FingerprintFree(mrg.existing)) =>
                merge_descriptions(AsCollectionText(mrg.existing), AsCollectionText(mrg.fresh))
                    = AsCollectionText(mrg.out)

\* a collection text with its marker pair and a legacy fingerprint after it
\* took the marked branch, as a request text does
C19_Witness ==
    /\ mrg.stage = "merged"
    /\ mrg.kind = "collection"
    /\ mrg.existing = <<CS, CE, "Auto-generated on">>
    /\ mrg.fresh = <<CS, "new", CE>>
    /\ mrg.out = <<CS, "new", CE, NL, NL, "Auto-generated on">>
    /\ merge_request_descriptions(<<RS, RE, "## Responses">>, <<RS, "new", RE>>)
         = <<RS, "new", RE, NL, NL, "## Responses">>

\* C21: merging the merged text with the same fresh text again changes
\* nothing, for both merge functions.
C21_MergeIdempotentInFresh == mrg.stage = "again" => mrg.again = mrg.out

\* a hand-written note and a fresh text without markers: the second merge
\* appends the fresh text a second time
C21_Witness ==
    /\ mrg.stage = "again"
    /\ mrg.kind = "request"
    /\ mrg.existing = <<"note">>
    /\ mrg.fresh = <<"new">>
    /\ mrg.out = <<"note", NL, NL, "---", NL, NL, "new">>
    /\ mrg.again = <<"note", NL, NL, "---", NL, NL, "new", NL, NL, "---", NL, NL, "new">>

(***************************************************************************)
(* Properties of a run of smart_update_postman_collection.                 *)
(***************************************************************************)
\* t occurs in d as a contiguous piece
Occurs(t, d) == \E i \in 0..(Len(d) - Len(t)) : SubSeq(d, i + 1, i + Len(t)) = t

\* the hand-written text of a request description: what lies outside the
\* generated block when the description has the marker pair, else all of it
HandWritten(description) ==
    IF Contains(description, RS) /\ Contains(description, RE)
    THEN {Strip(SplitHead(description, RS)), Strip(SplitRest(description, RE))}
    ELSE {Strip(description)}

RequestItems(items) == {i \in 1..Len(items) : items[i].hasRequest}

DescriptorKeys == {EndpointKey(api.endpoints[i]) : i \in 1..Len(api.endpoints)}

ReportedKeys == Range(report.new) \cup Range(report.updated) \cup Range(report.unchanged)

\* C1: after a run with preserve_existing_docs, the hand-written text of
\* every fetched item is still in the description of a written item of the
\* same key.
C1_HandWrittenTextSurvives ==
    (Written /\ opts.preserve) =>
        \A i \in RequestItems(fetched) : \A text \in HandWritten(fetched[i].description) :
            \E j \in RequestItems(remote.items) :
                /\ ItemKey(remote.items[j]) = ItemKey(fetched[i])
                /\ Occurs(text, remote.items[j].description)

\* a note that holds the words "## Responses" was replaced by the generated block
C1_Witness ==
    /\ Written
    /\ opts.preserve
    /\ opts.doc
    /\ fetched = <<HandItem(<<"note", SP, "## Responses">>)>>
    /\ api.endpoints = <<DescA>>
    /\ report.updated = <<EndpointKey(DescA)>>
    /\ Len(remote.items) = 1
    /\ remote.items[1].description = generate_request_documentation(DescA)

\* C2: the second of two runs with the same single descriptor and
\* preserve_existing_docs reports nothing new, nothing updated and one
\* unchanged endpoint.
C2_FixedPointAfterOnePass ==
    (rerun /\ Len(api.endpoints) = 1 /\ opts.preserve) =>
        /\ report.new = <<>>
        /\ report.updated = <<>>
        /\ Len(report.unchanged) = 1

\* the second run of a descriptor with a trailing slash added the endpoint again
C2_Witness ==
    /\ rerun
    /\ opts.preserve
    /\ api.endpoints = <<DescASlash>>
    /\ Len(fetched) = 1
    /\ report.new = <<EndpointKey(DescASlash)>>
    /\ report.unchanged = <<>>
    /\ Len(remote.items) = 2

\* the descriptors of the last run have pairwise different keys
DistinctDescriptorKeys == Cardinality(DescriptorKeys) = Len(api.endpoints)

\* the mapping the run built from the snapshot it fetched
FetchedLookup == BuildLookup(fetched, <<>>)

CandidateOf(endpoint) ==
    Candidate(Lookup(FetchedLookup, EndpointKey(endpoint)),
              convert_endpoint_to_postman_item(endpoint, opts.doc), opts.preserve)

C4_ReportCoversDescriptors == outcome.writes = 1 => ReportedKeys = DescriptorKeys

\* a run reported a new and an unchanged endpoint
C4_Witness ==
    /\ Written
    /\ Len(api.endpoints) = 2
    /\ report.new # <<>>
    /\ report.unchanged # <<>>

UntouchedItems == {i \in RequestItems(fetched) : ItemKey(fetched[i]) \notin DescriptorKeys}

\* C5: every existing item of an untouched key is in the final collection
\* unmodified, there is exactly one item for each descriptor key and nothing
\* else, and no untouched key is reported.
C5_UntouchedItemsAllKept ==
    Written =>
        /\ \A i \in UntouchedItems : \E j \in 1..Len(remote.items) : remote.items[j] = fetched[i]
        /\ \A k \in DescriptorKeys : Cardinality({j \in 1..Len(lookup) : lookup[j].key = k}) = 1
        /\ Len(remote.items) = Cardinality(UntouchedItems) + Cardinality(DescriptorKeys)
        /\ \A i \in UntouchedItems : ItemKey(fetched[i]) \notin ReportedKeys

\* two existing items of one untouched key: the first one is gone from the
\* collection written back
C5_Witness ==
    /\ Written
    /\ fetched = <<HandItem(<<"note">>), EncodedItem>>
    /\ api.endpoints = <<DescB>>
    /\ remote.items = <<EncodedItem, convert_endpoint_to_postman_item(DescB, opts.doc)>>
    /\ \A j \in 1..Len(remote.items) : remote.items[j] # HandItem(<<"note">>)

\* the positions of the descriptors of key k
DescriptorsOf(k) == {i \in 1..Len(api.endpoints) : EndpointKey(api.endpoints[i]) = k}

Last(S) == CHOOSE i \in S : \A j \in S : j <= i

\* the request of an item without its description
RequestStructure(item) ==
    [method |-> item.method, header |-> item.header, url |-> item.url, body |-> item.body]

\* C17: the item of a key that two descriptors have is derived from the last
\* of them; the item of a key no descriptor touches is the last existing
\* item of that key.
C17_LaterDuplicateWins ==
    Written =>
        /\ \A k \in DescriptorKeys :
                Cardinality(DescriptorsOf(k)) >= 2 =>
                    RequestStructure(Lookup(lookup, k))
                        = RequestStructure(convert_endpoint_to_postman_item(
                              api.endpoints[Last(DescriptorsOf(k))], opts.doc))
        /\ \A i \in UntouchedItems :
                Lookup(lookup, ItemKey(fetched[i]))
                    = fetched[Last({j \in UntouchedItems : ItemKey(fetched[j]) = ItemKey(fetched[i])})]

\* an empty collection and two descriptors of one key with different default
\* values: the second is reported unchanged and the item written is the
\* first one's, with the first default
C17_Witness ==
    /\ Written
    /\ fetched = <<>>
    /\ api.endpoints = <<DescAJson, DescAJsonPage>>
    /\ report.new = <<EndpointKey(DescAJson)>>
    /\ report.unchanged = <<EndpointKey(DescAJsonPage)>>
    /\ remote.items = <<convert_endpoint_to_postman_item(DescAJson, opts.doc)>>
    /\ remote.items[1].url.query[1].value = ""
    /\ convert_endpoint_to_postman_item(DescAJsonPage, opts.doc).url.query[1].value = "2"

\* a written run with the default flags
DefaultRun == Written /\ call.tool = "smart_update" /\ opts.doc /\ opts.preserve

\* C22: the preview of the fetched items and the descriptors has each
\* endpoint in the class that the run with the default flags reports.
C22_PreviewAgreesWithRun ==
    DefaultRun => analyze_postman_changes(fetched, api.endpoints) = report

\* the second run on an item with a hand-written note ahead of its generated
\* block: the run reports the endpoint unchanged, the preview has it updated
C22_Witness ==
    /\ DefaultRun
    /\ rerun
    /\ api.endpoints = <<DescA>>
    /\ Len(fetched) = 1
    /\ fetched[1].description
         = <<"note">> \o RuleSeparator \o generate_request_documentation(DescA)
    /\ report.unchanged = <<EndpointKey(DescA)>>
    /\ report.updated = <<>>
    /\ analyze_postman_changes(fetched, api.endpoints).updated = <<EndpointKey(DescA)>>

\* C23: every fetched item without "request" is in the written collection
\* unmodified.
C23_FoldersKept ==
    Written =>
        \A i \in 1..Len(fetched) :
            ~fetched[i].hasRequest => \E j \in 1..Len(remote.items) : remote.items[j] = fetched[i]

\* a collection of one folder was updated with one descriptor: the written
\* collection has the descriptor's item and no folder
C23_Witness ==
    /\ Written
    /\ ~rerun
    /\ fetched = <<Folder>>
    /\ api.endpoints = <<DescB>>
    /\ remote.items = <<convert_endpoint_to_postman_item(DescB, opts.doc)>>
    /\ \A j \in 1..Len(remote.items) : remote.items[j].hasRequest

\* C24: no two items of the written collection have the same key, the key
\* being computed from the items.
C24_ItemKeysDistinct ==
    Written =>
        \A i, j \in RequestItems(remote.items) :
            ItemKey(remote.items[i]) = ItemKey(remote.items[j]) => i = j

\* GET /a and GET /a/ were added to an empty collection as two new
\* endpoints: the two items written both have the key GET /a
C24_Witness ==
    /\ Written
    /\ ~rerun
    /\ fetched = <<>>
    /\ api.endpoints = <<DescA, DescASlash>>
    /\ report.new = <<EndpointKey(DescA), EndpointKey(DescASlash)>>
    /\ Len(remote.items) = 2
    /\ ItemKey(remote.items[1]) = <<"GET", <<"/", "a">> >>
    /\ ItemKey(remote.items[2]) = <<"GET", <<"/", "a">> >>

MalformedShapes == {"bad_json", "not_str_or_dict", "json_not_dict", "no_endpoints"}

\* C10: a run whose api_data is not valid JSON or not of the expected shape
\* ends with an error message and without a call of the write collaborator.
C10_MalformedInputAborts ==
    api.shape \in MalformedShapes =>
        /\ outcome.result \in {"error_parse", "error_type", "error_fetch", "error_update"}
        /\ outcome.writes = 0

\* an object without "endpoints" was taken as an empty batch and the
\* collection was written back
C10_Witness ==
    /\ api.shape = "no_endpoints"
    /\ outcome.result = "no_endpoints_found"
    /\ outcome.fetches = 1
    /\ outcome.writes = 1

(***************************************************************************)
(* Properties of the error paths and of the preview.                       *)
(***************************************************************************)
\* C11: a run whose fetch fails makes that one fetch, no write and no change
\* report, and ends with error text; a run whose write fails made one fetch
\* and one write attempt and ends with error text; the remote collection is
\* as it was in both cases.
C11_CollaboratorFailureAborts ==
    /\ outcome.result = "error_fetch" =>
            /\ outcome.fetches = 1
            /\ outcome.writes = 0
            /\ report = NoReport
            /\ remote \in InitialCollections
    /\ (outcome.result = "error_update" /\ outcome.writes > 0) =>
            /\ outcome.fetches = 1
            /\ outcome.writes = 1
            /\ remote.items = fetched
            /\ remote \in InitialCollections

\* the write of a rebuilt collection with a new endpoint failed
C11_Witness ==
    /\ call = SmartUpdateCall
    /\ outcome = [result |-> "error_update", fetches |-> 1, writes |-> 1]
    /\ api.endpoints = <<DescA>>
    /\ report.new = <<EndpointKey(DescA)>>
    /\ remote.items = <<>>

\* C12: a call of either tool without the collection uid or without the api
\* key ends with the missing-credential text, before any fetch or write.
C12_MissingCredentialBeforeNetwork ==
    (call.tool \in {"smart_update", "preview"} /\ ~(call.uid /\ call.key)) =>
        /\ outcome.result \in {"error_no_uid", "error_no_key", "error_credentials"}
        /\ outcome.fetches = 0
        /\ outcome.writes = 0
        /\ remote \in InitialCollections

\* smart_update_postman_collection was called with a uid and without a key
C12_Witness ==
    /\ call = [tool |-> "smart_update", uid |-> TRUE, key |-> FALSE]
    /\ api.shape = "dict"
    /\ outcome = [result |-> "error_no_key", fetches |-> 0, writes |-> 0]

\* C14: no step of preview_postman_changes calls the write collaborator or
\* changes the remote collection, and the snapshot it fetched is the remote
\* collection's items still.
C14_PreviewIsReadOnly ==
    [][call'.tool = "preview" =>
          /\ remote' = remote
          /\ outcome'.writes = 0
          /\ (outcome'.result \in {"preview", "error_preview"} => fetched' = remote'.items)]_vars

\* a preview reported an endpoint as updated while a folder was in the collection
C14_Witness ==
    /\ call = PreviewCall
    /\ outcome = [result |-> "preview", fetches |-> 1, writes |-> 0]
    /\ report.updated # <<>>
    /\ fetched = remote.items
    /\ \E i \in 1..Len(remote.items) : ~remote.items[i].hasRequest

(***************************************************************************)
(* Properties of generate_api_documentation.                               *)
(***************************************************************************)
DocsDone == docs.stage = "done" /\ docs.shape \in {"dict", "no_endpoints"}

\* C13 as stated: an unrecognized format_type or an unrecognized
\* template_style ends in an error and no documentation.
C13_UnknownOptionIsAnError ==
    (DocsDone /\ (docs.format_type \notin {"markdown", "json"}
                  \/ docs.template_style \notin {"detailed", "compact"})) =>
        /\ docs.out.status \in {"error_format", "error_style"}
        /\ docs.out.text = <<>>

\* C13 amended: an unrecognized format_type ends in an error and no
\* documentation, and nothing else does for well-formed api_data; an
\* unrecognized template_style is not reported: with format_type "markdown"
\* it gives the documentation of style "detailed", with "json" it is ignored.
C13_UnknownFormatIsAnError ==
    DocsDone =>
        /\ docs.format_type \notin {"markdown", "json"} =>
                docs.out = [status |-> "error_format", text |-> <<>>]
        /\ docs.format_type \in {"markdown", "json"} => docs.out.status = "ok"
        /\ (docs.format_type = "markdown" /\ docs.template_style \notin {"detailed", "compact"}) =>
                docs.out = generate_markdown_docs(docs.endpoints, "detailed", TimestampOf(0))
        /\ docs.format_type = "json" => docs.out.text = JsonDump(docs.shape, docs.endpoints)

\* markdown of an unrecognized style was asked for two endpoints and the
\* detailed documentation came back
C13_Witness ==
    /\ docs.stage = "done"
    /\ docs.shape = "dict"
    /\ docs.endpoints = <<DescA, DescB>>
    /\ docs.format_type = "markdown"
    /\ docs.template_style = "fancy"
    /\ docs.out.status = "ok"
    /\ docs.out.text = generate_detailed_markdown(<<DescA, DescB>>, TimestampOf(0))
    /\ docs.out.text # generate_compact_markdown(<<DescA, DescB>>, TimestampOf(0))

(***************************************************************************)
(* Properties of the change detector and of the item codec.                *)
(***************************************************************************)
Compared == cmp.stage = "done" /\ cmp.kind = "compare"

Encoded == cmp.stage = "done" /\ cmp.kind = "encode"

KeysOf(entries) == {entries[i].key : i \in 1..Len(entries)}

HeadersDiffer ==
    \/ Len(cmp.existing.header) # Len(cmp.new.header)
    \/ KeysOf(cmp.existing.header) # KeysOf(cmp.new.header)

QueryDiffers ==
    \/ Len(cmp.existing.url.query) # Len(cmp.new.url.query)
    \/ KeysOf(cmp.existing.url.query) # KeysOf(cmp.new.url.query)

BodyDiffers ==
    \/ (cmp.existing.body.mode = "none") # (cmp.new.body.mode = "none")
    \/ /\ cmp.existing.body.mode # "none"
       /\ cmp.new.body.mode # "none"
       /\ cmp.existing.body.mode # cmp.new.body.mode

DescriptionDiffers == cmp.existing.description # cmp.new.description

\* C15: has_changes is true exactly when one of the four axes differs, and
\* each differing axis has its entry: headers and query parameters by count
\* or key set, bodies by presence or mode, descriptions by equality.
C15_FourIndependentAxes ==
    Compared =>
        /\ cmp.changes.has_changes
            = (HeadersDiffer \/ QueryDiffers \/ BodyDiffers \/ DescriptionDiffers)
        /\ ("headers" \in cmp.changes.request_changes) = HeadersDiffer
        /\ ("url" \in cmp.changes.request_changes) = QueryDiffers
        /\ ("body" \in cmp.changes.request_changes) = BodyDiffers
        /\ ("description" \in cmp.changes.documentation_changes) = DescriptionDiffers

\* two items that differ on all four axes got all four entries
C15_Witness ==
    /\ Compared
    /\ HeadersDiffer /\ QueryDiffers /\ BodyDiffers /\ DescriptionDiffers
    /\ cmp.changes = [has_changes |-> TRUE, request_changes |-> {"headers", "url", "body"},
                      documentation_changes |-> {"description"}]

\* C16: two encodings of one descriptor compare as unchanged; the encoding of
\* the descriptor with one more query parameter compares as changed, with a
\* url entry.
C16_EncodingStableAndQuerySensitive ==
    Encoded =>
        /\ ~cmp.same.has_changes
        /\ cmp.changes.has_changes
        /\ "url" \in cmp.changes.request_changes

\* a query parameter of a name the descriptor already has was added
C16_Witness ==
    /\ Encoded
    /\ cmp.extra.name = "q"
    /\ Len(ParamsAt(cmp.endpoint.parameters, "query")) = 1
    /\ KeysOf(cmp.existing.url.query) = KeysOf(cmp.grown.url.query)
    /\ ~cmp.same.has_changes
    /\ "url" \in cmp.changes.request_changes

\* the headers the codec appends to those of the header parameters
SynthesizedHeaders ==
    SubSeq(cmp.existing.header, Len(ParamsAt(cmp.endpoint.parameters, "header")) + 1,
           Len(cmp.existing.header))

ContentTypeOf(value) == <<[key |-> "Content-Type", value |-> value, description |-> ""]>>

\* C18: a Content-Type header is synthesized exactly when the descriptor has
\* a body or form parameter: urlencoded with a urlencoded body of one entry
\* per form parameter whenever there is a form parameter, else JSON with a
\* raw body; with neither there is no body and no synthesized header.
C18_ContentTypeFollowsParameters ==
    Encoded =>
        LET form_params == ParamsAt(cmp.endpoint.parameters, "form")
            body_params == ParamsAt(cmp.endpoint.parameters, "body")
        IN  /\ (form_params = <<>> /\ body_params = <<>>) =>
                    /\ SynthesizedHeaders = <<>>
                    /\ cmp.existing.body.mode = "none"
            /\ form_params # <<>> =>
                    /\ SynthesizedHeaders = ContentTypeOf("application/x-www-form-urlencoded")
                    /\ cmp.existing.body.mode = "urlencoded"
                    /\ [i \in 1..Len(cmp.existing.body.entries) |-> cmp.existing.body.entries[i].key]
                         = [i \in 1..Len(form_params) |-> form_params[i].name]
            /\ (form_params = <<>> /\ body_params # <<>>) =>
                    /\ SynthesizedHeaders = ContentTypeOf("application/json")
                    /\ cmp.existing.body.mode = "raw"

\* a descriptor with a body parameter first and a form parameter second got
\* the urlencoded Content-Type and body
C18_Witness ==
    /\ Encoded
    /\ [i \in 1..Len(cmp.endpoint.parameters) |-> cmp.endpoint.parameters[i].location]
         = <<"body", "form">>
    /\ cmp.existing.header = ContentTypeOf("application/x-www-form-urlencoded")
    /\ cmp.existing.body.mode = "urlencoded"
    /\ Len(cmp.existing.body.entries) = 1

(***************************************************************************)
(* Properties of two interleaved runs.                                     *)
(***************************************************************************)
BothWritten == race.stage = "running" /\ \A r \in Runs : race.run[r].pc = "written"

\* both runs fetched before either wrote
FetchedBeforeWrites ==
    /\ Len(race.events) >= 2
    /\ race.events[1].op = "fetch"
    /\ race.events[2].op = "fetch"

LaterWriter == race.events[Len(race.events)].run

EarlierWriter == CHOOSE r \in Runs : r # LaterWriter

ItemKeys(items) == {ItemKey(items[i]) : i \in RequestItems(items)}

\* C20: when both runs fetched before either wrote, the remote collection
\* after both writes is the collection the later writer rebuilt from its own
\* snapshot, which is the collection as it was before both runs.
C20_LastWriterWins ==
    (BothWritten /\ FetchedBeforeWrites) =>
        /\ remote = race.run[LaterWriter].data
        /\ race.run[LaterWriter].snapshot = race.initial
        /\ \E t \in 0..1 :
                remote = ComputedCollection(race.initial, race.run[LaterWriter].endpoints,
                                            race.run[LaterWriter].opts.doc,
                                            race.run[LaterWriter].opts.preserve, TimestampOf(t))

\* the earlier writer added POST /b to an empty collection, the later writer
\* added GET /a: after both writes POST /b is gone
C20_Witness ==
    /\ BothWritten
    /\ FetchedBeforeWrites
    /\ race.initial.items = <<>>
    /\ race.run[EarlierWriter].endpoints = <<DescB>>
    /\ race.run[LaterWriter].endpoints = <<DescA>>
    /\ EndpointKey(DescB) \in ItemKeys(race.run[EarlierWriter].data.items)
    /\ ItemKeys(remote.items) = {EndpointKey(DescA)}

\* the request documentation of the encoded item, from its "## Request Body"
\* heading on (the descriptors of SpecCodec have no responses after it)
RequestBodySection == After(cmp.existing.description,
                            FirstIndex(cmp.existing.description, "## Request Body"))

\* the Content-Type the documentation names
DocumentedContentType ==
    RequestBodySection[FirstIndex(RequestBodySection, "**Content-Type:**") + 1]

\* the names of the parameters the documentation lists under Request Body
DocumentedBodyNames ==
    {RequestBodySection[i + 1] :
        i \in {j \in 1..(Len(RequestBodySection) - 1) : RequestBodySection[j] = "- **"}}

HasBodyOrForm ==
    \/ ParamsAt(cmp.endpoint.parameters, "body") # <<>>
    \/ ParamsAt(cmp.endpoint.parameters, "form") # <<>>

\* C25: for a descriptor with body or form parameters the documentation
\* names the Content-Type of the synthesized header, and lists under Request
\* Body the parameters that are in the item's body.
C25_DocumentationMatchesRequest ==
    (Encoded /\ cmp.doc /\ HasBodyOrForm) =>
        /\ Contains(cmp.existing.description, "## Request Body")
        /\ DocumentedContentType = SynthesizedHeaders[1].value
        /\ DocumentedBodyNames = KeysOf(cmp.existing.body.entries)

\* a descriptor with the body parameter g and the form parameter f: the
\* documentation names application/json and lists g, the request has the
\* urlencoded header and f in its body
C25_Witness ==
    /\ Encoded
    /\ cmp.doc
    /\ [i \in 1..Len(cmp.endpoint.parameters) |-> cmp.endpoint.parameters[i].name] = <<"g", "f">>
    /\ DocumentedContentType = "application/json"
    /\ DocumentedBodyNames = {"g"}
    /\ SynthesizedHeaders = ContentTypeOf("application/x-www-form-urlencoded")
    /\ KeysOf(cmp.existing.body.entries) = {"f"}

====
